---- MODULE Spec2Model ----
(***************************************************************************)
(* Entropy Go: the rules engine of src/utils/goLogic.ts, the move          *)
(* evaluator and the game store (resetGame, passTurn, placeStone) found in *)
(* src/utils/ai.ts, and the AI effect of src/App.tsx.                      *)
(*                                                                         *)
(* A point {row, col} is the pair <<row, col>>; a Set<string> of pointKey  *)
(* strings is a set of such pairs; a Point[] is a sequence of them.  The   *)
(* grid is grid[row][col], rows and columns numbered from 0.  A stone's id *)
(* (a fresh uuid, read by the renderer only) is not part of the model.     *)
(***************************************************************************)
EXTENDS Integers, Sequences, FiniteSets, TLC

\* ------------------------------------------------------------------ types.ts

BOARD_SIZE == 9

Idx == 0 .. (BOARD_SIZE - 1)

Players == {"black", "white"}

\* the null of a grid cell
NoStone == [color |-> "none", health |-> 0, isPetrified |-> FALSE]

\* the null of lastMove
NoPoint == <<-1, -1>>

\* ---------------------------------------------------------------- goLogic.ts

DIRECTIONS == << <<-1, 0>>, <<1, 0>>, <<0, -1>>, <<0, 1>> >>

isValidPoint(row, col) ==
    row >= 0 /\ row < BOARD_SIZE /\ col >= 0 /\ col < BOARD_SIZE

pointKey(row, col) == <<row, col>>

\* Each loop of goLogic.ts is an operator for one iteration (a ...Step) and a
\* recursive operator that runs it while the loop's condition holds; the
\* loop's variables travel in the record acc.  A loop over the four
\* directions is a scan of the point's neighbours in the order of DIRECTIONS.

\* The on-board neighbours of a point, in the order of DIRECTIONS.
neighbours(point) ==
    SelectSeq([d \in 1 .. Len(DIRECTIONS) |->
                  <<point[1] + DIRECTIONS[d][1], point[2] + DIRECTIONS[d][2]>>],
              LAMBDA p : isValidPoint(p[1], p[2]))

\* groupDirs as it would be without the colour test: any stone next to the
\* group joins it.
groupDirs_anyColour(g, color, current, acc) ==
    LET fresh == SelectSeq(neighbours(current),
                     LAMBDA p : /\ pointKey(p[1], p[2]) \notin acc.visited
                                /\ g[p[1]][p[2]] # NoStone)
    IN [acc EXCEPT !.stack   = @ \o fresh,
                   !.visited = @ \cup { pointKey(fresh[k][1], fresh[k][2]) :
                                           k \in 1 .. Len(fresh) }]

\* getGroup's inner `for (const dir of DIRECTIONS)`: every unvisited on-board
\* neighbour of the same colour is marked visited and pushed, in the order of
\* DIRECTIONS.  The neighbours are four different points, so none of them is
\* marked by the pass that tests it.  acc = [stack, visited, group].
groupDirs(g, color, current, acc) ==
    LET fresh == SelectSeq(neighbours(current),
                     LAMBDA p : /\ pointKey(p[1], p[2]) \notin acc.visited
                                /\ g[p[1]][p[2]] # NoStone
                                /\ g[p[1]][p[2]].color = color)
    IN [acc EXCEPT !.stack   = @ \o fresh,
                   !.visited = @ \cup { pointKey(fresh[k][1], fresh[k][2]) :
                                           k \in 1 .. Len(fresh) }]

\* One iteration of getGroup's `while (stack.length > 0)`: pop the top, push
\* it to the group, look in the four directions.
groupStep(g, color, acc) ==
    IF Len(acc.stack) = 0 THEN acc
    ELSE LET current == acc.stack[Len(acc.stack)]
         IN groupDirs(g, color, current,
                [acc EXCEPT !.stack = SubSeq(@, 1, Len(@) - 1),
                            !.group = Append(@, current)])

RECURSIVE groupLoop(_, _, _)
groupLoop(g, color, acc) ==
    IF Len(acc.stack) = 0 THEN acc.group
    ELSE groupLoop(g, color, groupStep(g, color, acc))

getGroup(g, row, col) ==
    IF g[row][col] = NoStone THEN <<>>
    ELSE groupLoop(g, g[row][col].color,
                   [stack   |-> << <<row, col>> >>,
                    visited |-> {pointKey(row, col)},
                    group   |-> <<>>])

\* The liberties a single group member adds: its empty on-board neighbours.
pointLiberties(g, point) ==
    { pointKey(point[1] + DIRECTIONS[d][1], point[2] + DIRECTIONS[d][2]) :
        d \in { e \in 1 .. Len(DIRECTIONS) :
                  /\ isValidPoint(point[1] + DIRECTIONS[e][1],
                                  point[2] + DIRECTIONS[e][2])
                  /\ g[point[1] + DIRECTIONS[e][1]][point[2] + DIRECTIONS[e][2]]
                        = NoStone } }

\* countLiberties as it would be with a counter in place of the Set: a
\* liberty is counted once for every group member it touches.
RECURSIVE countLiberties_counter(_, _)
countLiberties_counter(g, group) ==
    IF Len(group) = 0 THEN 0
    ELSE Cardinality(pointLiberties(g, group[1]))
         + countLiberties_counter(g, SubSeq(group, 2, Len(group)))

\* liberties.size, the Set holding each liberty's key once.
countLiberties(g, group) ==
    Cardinality(UNION { pointLiberties(g, group[i]) : i \in 1 .. Len(group) })

\* exploreEmptyRegion's inner direction loop: an unvisited empty neighbour is
\* marked visited and pushed, a stone gives its colour to boundaryColors.
\* acc = [stack, visited, boundaryColors, region].
regionDirs(g, current, acc) ==
    LET near  == neighbours(current)
        fresh == SelectSeq(near,
                     LAMBDA p : /\ g[p[1]][p[2]] = NoStone
                                /\ pointKey(p[1], p[2]) \notin acc.visited)
    IN [acc EXCEPT !.stack   = @ \o fresh,
                   !.visited = @ \cup { pointKey(fresh[k][1], fresh[k][2]) :
                                           k \in 1 .. Len(fresh) },
                   !.boundaryColors =
                       @ \cup { g[near[k][1]][near[k][2]].color :
                                  k \in { j \in 1 .. Len(near) :
                                            g[near[j][1]][near[j][2]] # NoStone } }]

\* One iteration of exploreEmptyRegion's `while (stack.length > 0)`.
regionStep(g, acc) ==
    IF Len(acc.stack) = 0 THEN acc
    ELSE LET current == acc.stack[Len(acc.stack)]
         IN regionDirs(g, current,
                [acc EXCEPT !.stack  = SubSeq(@, 1, Len(@) - 1),
                            !.region = Append(@, current)])

\* The iterations number lo to hi of the while loop, as far as the stack
\* lasts: the first half of them, then the second.  Every iteration pops a
\* point that was marked visited when it was pushed, so the loop ends within
\* BOARD_SIZE * BOARD_SIZE iterations.
RECURSIVE regionLoop(_, _, _, _)
regionLoop(g, acc, lo, hi) ==
    IF lo = hi THEN regionStep(g, acc)
    ELSE LET half == regionLoop(g, acc, lo, (lo + hi) \div 2)
         IN IF Len(half.stack) = 0 THEN half
            ELSE regionLoop(g, half, (lo + hi) \div 2 + 1, hi)

\* The second scan of exploreEmptyRegion, for one empty point of the region:
\* a stone next to it enters the Map unless its key is already there.
boundaryDirs(g, emptyPoint, stones) ==
    stones \o SelectSeq(neighbours(emptyPoint),
                  LAMBDA p : /\ g[p[1]][p[2]] # NoStone
                             /\ \A k \in 1 .. Len(stones) : stones[k] # p)

\* One iteration of `for (const emptyPoint of region)`.  acc = [i, stones].
boundaryStep(g, region, acc) ==
    IF acc.i > Len(region) THEN acc
    ELSE [i      |-> acc.i + 1,
          stones |-> boundaryDirs(g, region[acc.i], acc.stones)]

\* The iterations number lo to hi of `for (const emptyPoint of region)`:
\* the first half of them, then the second.
RECURSIVE boundaryScan(_, _, _, _, _)
boundaryScan(g, region, acc, lo, hi) ==
    IF lo >= hi THEN boundaryStep(g, region, acc)
    ELSE LET half == boundaryScan(g, region, acc, lo, (lo + hi) \div 2)
         IN IF half.i > Len(region) THEN half
            ELSE boundaryScan(g, region, half, (lo + hi) \div 2 + 1, hi)

exploreEmptyRegion(g, startRow, startCol) ==
    LET walk == regionLoop(g,
                    [stack          |-> << <<startRow, startCol>> >>,
                     visited        |-> {pointKey(startRow, startCol)},
                     boundaryColors |-> {},
                     region         |-> <<>>],
                    1, BOARD_SIZE * BOARD_SIZE)
    IN [region         |-> walk.region,
        boundaryColors |-> walk.boundaryColors,
        boundaryStones |-> boundaryScan(g, walk.region,
                                        [i |-> 1, stones |-> <<>>],
                                        1, Len(walk.region)).stones]

\* Regions larger than this are the open board, never territory.
REGION_LIMIT == 30

SeqToSet(s) == { s[i] : i \in 1 .. Len(s) }

\* petrifyStep as it would be with `boundaryColors.size >= 1`: a region
\* bounded by both colours counts as territory.
petrifyStep_anyBoundary(g, acc) ==
    IF acc.n >= BOARD_SIZE * BOARD_SIZE THEN acc
    ELSE LET r == acc.n \div BOARD_SIZE
             c == acc.n % BOARD_SIZE
         IN IF g[r][c] = NoStone /\ pointKey(r, c) \notin acc.visitedAppEmpty
            THEN LET found == exploreEmptyRegion(g, r, c)
                     seen  == acc.visitedAppEmpty \cup SeqToSet(found.region)
                 IN IF Len(found.region) > REGION_LIMIT
                    THEN [acc EXCEPT !.n = @ + 1, !.visitedAppEmpty = seen]
                    ELSE IF Cardinality(found.boundaryColors) >= 1
                    THEN [n               |-> acc.n + 1,
                          visitedAppEmpty |-> seen,
                          petrifiedStones |->
                              acc.petrifiedStones \o found.boundaryStones]
                    ELSE [acc EXCEPT !.n = @ + 1, !.visitedAppEmpty = seen]
            ELSE [acc EXCEPT !.n = @ + 1]

\* petrifyStep as it would be with `region.length >= 30` for the size test:
\* a region of exactly 30 points is skipped.
petrifyStep_limitOff(g, acc) ==
    IF acc.n >= BOARD_SIZE * BOARD_SIZE THEN acc
    ELSE LET r == acc.n \div BOARD_SIZE
             c == acc.n % BOARD_SIZE
         IN IF g[r][c] = NoStone /\ pointKey(r, c) \notin acc.visitedAppEmpty
            THEN LET found == exploreEmptyRegion(g, r, c)
                     seen  == acc.visitedAppEmpty \cup SeqToSet(found.region)
                 IN IF Len(found.region) >= REGION_LIMIT
                    THEN [acc EXCEPT !.n = @ + 1, !.visitedAppEmpty = seen]
                    ELSE IF Cardinality(found.boundaryColors) = 1
                    THEN [n               |-> acc.n + 1,
                          visitedAppEmpty |-> seen,
                          petrifiedStones |->
                              acc.petrifiedStones \o found.boundaryStones]
                    ELSE [acc EXCEPT !.n = @ + 1, !.visitedAppEmpty = seen]
            ELSE [acc EXCEPT !.n = @ + 1]

\* One iteration of checkPetrification's double loop, at cell number
\* n = r * BOARD_SIZE + c.  acc = [n, visitedAppEmpty, petrifiedStones].
petrifyStep(g, acc) ==
    IF acc.n >= BOARD_SIZE * BOARD_SIZE THEN acc
    ELSE LET r == acc.n \div BOARD_SIZE
             c == acc.n % BOARD_SIZE
         IN IF g[r][c] = NoStone /\ pointKey(r, c) \notin acc.visitedAppEmpty
            THEN LET found == exploreEmptyRegion(g, r, c)
                     seen  == acc.visitedAppEmpty \cup SeqToSet(found.region)
                 IN IF Len(found.region) > REGION_LIMIT
                    THEN [acc EXCEPT !.n = @ + 1, !.visitedAppEmpty = seen]
                    ELSE IF Cardinality(found.boundaryColors) = 1
                    THEN [n               |-> acc.n + 1,
                          visitedAppEmpty |-> seen,
                          petrifiedStones |->
                              acc.petrifiedStones \o found.boundaryStones]
                    ELSE [acc EXCEPT !.n = @ + 1, !.visitedAppEmpty = seen]
            ELSE [acc EXCEPT !.n = @ + 1]

\* The next cell number, from acc.n on, at which the `if` of the double loop
\* holds; BOARD_SIZE * BOARD_SIZE when there is none.  The iterations before
\* it change nothing but the loop counters.
nextOpen(g, acc) ==
    LET open == { n \in acc.n .. BOARD_SIZE * BOARD_SIZE - 1 :
                    /\ g[n \div BOARD_SIZE][n % BOARD_SIZE] = NoStone
                    /\ pointKey(n \div BOARD_SIZE, n % BOARD_SIZE)
                          \notin acc.visitedAppEmpty }
    IN IF open = {} THEN BOARD_SIZE * BOARD_SIZE
       ELSE CHOOSE n \in open : \A m \in open : n <= m

\* The double loop from cell number acc.n on: one level for each region found.
RECURSIVE petrifyLoop(_, _)
petrifyLoop(g, acc) ==
    LET n == nextOpen(g, acc)
    IN IF n >= BOARD_SIZE * BOARD_SIZE THEN acc.petrifiedStones
       ELSE petrifyLoop(g, petrifyStep(g, [acc EXCEPT !.n = n]))

checkPetrification(g) ==
    petrifyLoop(g, [n |-> 0, visitedAppEmpty |-> {}, petrifiedStones |-> <<>>])

\* ------------------------------------------------------- the game store (ai.ts)

other(player) == IF player = "black" THEN "white" ELSE "black"

INITIAL_HEALTH == 15

INITIAL_BOARD == [r \in Idx |-> [c \in Idx |-> NoStone]]

\* The state the store is created with, and the one resetGame sets.
InitialStore ==
    [grid       |-> INITIAL_BOARD,
     turn       |-> "black",
     turnCount  |-> 0,
     prisoners  |-> [black |-> 0, white |-> 0],
     gameStatus |-> "playing",
     lastMove   |-> NoPoint]

\* resetGame as it would be with the prisoners key left out of its set().
resetGame_keepsPrisoners(st) ==
    [InitialStore EXCEPT !.prisoners = st.prisoners]

resetGame(st) == InitialStore

\* passTurn as it would be with the lastMove key left out of its set().
passTurn_keepsLastMove(st) ==
    [st EXCEPT !.turn      = other(st.turn),
               !.turnCount = st.turnCount + 1]

\* passTurn as it would be with the turnCount key left out of its set().
passTurn_keepsTurnCount(st) ==
    [st EXCEPT !.turn     = other(st.turn),
               !.lastMove = NoPoint]

\* passTurn as it would be if a pass aged the passing player's stones.
passTurn_decays(st) ==
    [st EXCEPT !.grid      = [r \in Idx |-> [c \in Idx |->
                                 IF st.grid[r][c].color = st.turn
                                    /\ ~st.grid[r][c].isPetrified
                                    /\ st.grid[r][c].health > 1
                                 THEN [st.grid[r][c] EXCEPT !.health = @ - 1]
                                 ELSE st.grid[r][c]]],
               !.turn      = other(st.turn),
               !.turnCount = st.turnCount + 1,
               !.lastMove  = NoPoint]

passTurn(st) ==
    [st EXCEPT !.turn      = other(st.turn),
               !.turnCount = st.turnCount + 1,
               !.lastMove  = NoPoint]

\* applyDecay as it would be with `stone.health < 0` for the crumble test.
applyDecay_crumbleLate(g, turn) ==
    [r \in Idx |-> [c \in Idx |->
        IF g[r][c] # NoStone /\ g[r][c].color = turn /\ ~g[r][c].isPetrified
        THEN IF g[r][c].health - 1 < 0
             THEN NoStone
             ELSE [g[r][c] EXCEPT !.health = @ - 1]
        ELSE g[r][c]]]

\* placeStone step 1: every non-petrified stone of the player to move loses
\* one health and crumbles at 0.
applyDecay(g, turn) ==
    [r \in Idx |-> [c \in Idx |->
        IF g[r][c] # NoStone /\ g[r][c].color = turn /\ ~g[r][c].isPetrified
        THEN IF g[r][c].health - 1 <= 0
             THEN NoStone
             ELSE [g[r][c] EXCEPT !.health = @ - 1]
        ELSE g[r][c]]]

\* newStone as it would be with one health to spare for the first decay.
newStone_overfull(turn) ==
    [color |-> turn, health |-> INITIAL_HEALTH + 1, isPetrified |-> FALSE]

\* placeStone step 2.
newStone(turn) ==
    [color |-> turn, health |-> INITIAL_HEALTH, isPetrified |-> FALSE]

\* placeStone step 3, the forEach over the four neighbours of the new stone.
\* acc = [stonesToRemove, visitedForCapture].
RECURSIVE captureScan(_, _, _, _, _, _)
captureScan(g, row, col, opponent, d, acc) ==
    IF d > Len(DIRECTIONS) THEN acc.stonesToRemove
    ELSE LET nr == row + DIRECTIONS[d][1]
             nc == col + DIRECTIONS[d][2]
         IN IF /\ isValidPoint(nr, nc)
               /\ g[nr][nc] # NoStone
               /\ g[nr][nc].color = opponent
               /\ pointKey(nr, nc) \notin acc.visitedForCapture
            THEN LET group == getGroup(g, nr, nc)
                     seen  == acc.visitedForCapture \cup SeqToSet(group)
                 IN IF countLiberties(g, group) = 0
                    THEN captureScan(g, row, col, opponent, d + 1,
                            [stonesToRemove    |-> acc.stonesToRemove \o group,
                             visitedForCapture |-> seen])
                    ELSE captureScan(g, row, col, opponent, d + 1,
                            [acc EXCEPT !.visitedForCapture = seen])
            ELSE captureScan(g, row, col, opponent, d + 1, acc)

\* One neighbour's contribution when visitedForCapture is not consulted.
captureAt(g, row, col, opponent, d) ==
    LET nr == row + DIRECTIONS[d][1]
        nc == col + DIRECTIONS[d][2]
    IN IF /\ isValidPoint(nr, nc)
          /\ g[nr][nc] # NoStone
          /\ g[nr][nc].color = opponent
          /\ countLiberties(g, getGroup(g, nr, nc)) = 0
       THEN getGroup(g, nr, nc)
       ELSE <<>>

\* checkCaptures as it would be without the visitedForCapture test: a group
\* touching the new stone twice is pushed twice.
checkCaptures_noVisited(g, row, col, opponent) ==
    captureAt(g, row, col, opponent, 1) \o captureAt(g, row, col, opponent, 2)
        \o captureAt(g, row, col, opponent, 3)
        \o captureAt(g, row, col, opponent, 4)

checkCaptures(g, row, col, opponent) ==
    captureScan(g, row, col, opponent, 1,
                [stonesToRemove |-> <<>>, visitedForCapture |-> {}])

\* stonesToRemove.forEach(p => newGrid[p.row][p.col] = null)
removeStones(g, stones) ==
    LET gone == SeqToSet(stones)
    IN [r \in Idx |-> [c \in Idx |->
           IF <<r, c>> \in gone THEN NoStone ELSE g[r][c]]]

\* isSuicide as it would be without the test: every placement is committed.
isSuicide_never(g, row, col) == FALSE

\* The suicide test of the else branch: the new stone's group has no liberty.
isSuicide(g, row, col) ==
    countLiberties(g, getGroup(g, row, col)) = 0

\* applyPetrification as it would be if the flag were recomputed, a stone
\* the analyzer no longer names losing it.
applyPetrification_recompute(g) ==
    LET marked == SeqToSet(checkPetrification(g))
    IN [r \in Idx |-> [c \in Idx |->
           IF g[r][c] # NoStone
           THEN [g[r][c] EXCEPT !.isPetrified = (<<r, c>> \in marked)]
           ELSE g[r][c]]]

\* applyPetrification as it would be if only the first point named were
\* flagged.
applyPetrification_firstOnly(g) ==
    LET named == checkPetrification(g)
    IN [r \in Idx |-> [c \in Idx |->
           IF Len(named) > 0 /\ <<r, c>> = named[1] /\ g[r][c] # NoStone
           THEN [g[r][c] EXCEPT !.isPetrified = TRUE]
           ELSE g[r][c]]]

\* placeStone step 4: the flag is set on every point checkPetrification names.
applyPetrification(g) ==
    LET marked == SeqToSet(checkPetrification(g))
    IN [r \in Idx |-> [c \in Idx |->
           IF <<r, c>> \in marked /\ g[r][c] # NoStone
           THEN [g[r][c] EXCEPT !.isPetrified = TRUE]
           ELSE g[r][c]]]

\* toggleTurn as it would be with lastMove written as { row: col, col: row }.
toggleTurn_swapsLastMove(st, newGrid, newPrisoners, row, col) ==
    [st EXCEPT !.grid      = newGrid,
               !.turn      = other(st.turn),
               !.turnCount = st.turnCount + 1,
               !.prisoners = newPrisoners,
               !.lastMove  = <<col, row>>]

\* toggleTurn as it would be if a capture of three stones ended the game.
toggleTurn_endsGame(st, newGrid, newPrisoners, row, col) ==
    [st EXCEPT !.grid       = newGrid,
               !.turn       = other(st.turn),
               !.turnCount  = st.turnCount + 1,
               !.prisoners  = newPrisoners,
               !.gameStatus = IF newPrisoners[st.turn] >= 3
                              THEN IF st.turn = "black" THEN "black_won"
                                   ELSE "white_won"
                              ELSE st.gameStatus,
               !.lastMove   = <<row, col>>]

\* placeStone step 5, the final set({...}); gameStatus is not among its keys.
toggleTurn(st, newGrid, newPrisoners, row, col) ==
    [st EXCEPT !.grid      = newGrid,
               !.turn      = other(st.turn),
               !.turnCount = st.turnCount + 1,
               !.prisoners = newPrisoners,
               !.lastMove  = <<row, col>>]

\* isOccupied as it would be with the occupied test left out.
isOccupied_never(g, row, col) == FALSE

\* `if (grid[row][col] !== null) return;`
isOccupied(g, row, col) == g[row][col] # NoStone

\* copyGrid as it would be if the copy rebuilt each stone without its flag.
copyGrid_dropsFlag(g) ==
    [r \in Idx |-> [c \in Idx |->
        IF g[r][c] # NoStone THEN [g[r][c] EXCEPT !.isPetrified = FALSE]
        ELSE g[r][c]]]

\* grid.map(r => r.map(s => s ? { ...s } : null)): every stone is copied with
\* all its fields, so the copy equals the grid and shares nothing with it.
copyGrid(g) == [r \in Idx |-> [c \in Idx |-> g[r][c]]]

\* earlyReturn as it would be if the working grid shared its stones with the
\* store: the health taken by the decay loop stays taken after the return.
earlyReturn_sharedStones(st, newGrid) ==
    [st EXCEPT !.grid = [r \in Idx |-> [c \in Idx |->
        IF st.grid[r][c].color = st.turn /\ ~st.grid[r][c].isPetrified
        THEN [st.grid[r][c] EXCEPT !.health = @ - 1]
        ELSE st.grid[r][c]]]]

\* The `return;` of the suicide branch: set() is not called, and newGrid, a
\* copy, is dropped with the decay and the placement made on it.
earlyReturn(st, newGrid) == st

\* placeStone(row, col) on the store st; the value is the store afterwards.
placeStone(st, row, col) ==
    IF st.gameStatus # "playing" THEN st
    ELSE IF ~isValidPoint(row, col) THEN st
    ELSE IF isOccupied(st.grid, row, col) THEN st
    ELSE LET turn     == st.turn
             opponent == other(turn)
             decayed  == applyDecay(copyGrid(st.grid), turn)
             placed   == [decayed EXCEPT ![row][col] = newStone(turn)]
             stonesToRemove == checkCaptures(placed, row, col, opponent)
         IN IF Len(stonesToRemove) > 0
            THEN toggleTurn(st,
                     applyPetrification(removeStones(placed, stonesToRemove)),
                     [st.prisoners EXCEPT ![turn] = @ + Len(stonesToRemove)],
                     row, col)
            ELSE IF isSuicide(placed, row, col) THEN earlyReturn(st, placed)
            ELSE toggleTurn(st, applyPetrification(placed), st.prisoners,
                            row, col)

\* ------------------------------------------------- the move evaluator (ai.ts)

SCORES ==
    [KILL |-> 1000, SAVE |-> 500, PETRIFY |-> 300, EXPANSION |-> 10,
     DANGER |-> -500]

\* The grid evaluateMove works on: a copy of originalGrid with the simulated
\* stone written at (row, col).  No decay is applied and nothing is removed.
simulate(originalGrid, row, col, player) ==
    [copyGrid(originalGrid) EXCEPT ![row][col] =
        [color |-> player, health |-> 15, isPetrified |-> FALSE]]

\* evaluateMove's loop over the neighbours of the simulated stone, from
\* direction number d on.  acc = [captures, opponentGroupsChecked].
RECURSIVE countCaptures(_, _, _, _, _, _)
countCaptures(g, row, col, opponent, d, acc) ==
    IF d > Len(DIRECTIONS) THEN acc.captures
    ELSE LET nr == row + DIRECTIONS[d][1]
             nc == col + DIRECTIONS[d][2]
         IN IF /\ isValidPoint(nr, nc)
               /\ g[nr][nc] # NoStone
               /\ g[nr][nc].color = opponent
               /\ pointKey(nr, nc) \notin acc.opponentGroupsChecked
            THEN LET group   == getGroup(g, nr, nc)
                     checked == acc.opponentGroupsChecked \cup SeqToSet(group)
                 IN IF countLiberties(g, group) = 0
                    THEN countCaptures(g, row, col, opponent, d + 1,
                            [captures              |-> acc.captures + Len(group),
                             opponentGroupsChecked |-> checked])
                    ELSE countCaptures(g, row, col, opponent, d + 1,
                            [acc EXCEPT !.opponentGroupsChecked = checked])
            ELSE countCaptures(g, row, col, opponent, d + 1, acc)

\* killScore as it would be with the flat bonus alone, as the header comment
\* of ai.ts words the heuristic ("Kill Move (+1000)").
killScore_flat(captures) ==
    IF captures > 0 THEN SCORES.KILL ELSE 0

\* killScore as it would be with the per-stone bonus alone.
killScore_perStone(captures) ==
    IF captures > 0 THEN SCORES.KILL * captures ELSE 0

\* `score` after the kill block: KILL * captures, then KILL once more.
killScore(captures) ==
    IF captures > 0 THEN SCORES.KILL * captures + SCORES.KILL ELSE 0

\* The suicide penalty.
dangerScore(selfLiberties, captures) ==
    IF selfLiberties = 0 /\ captures = 0 THEN SCORES.DANGER ELSE 0

\* savedGroup: some neighbour on the OLD grid is a friendly stone whose group
\* had one liberty, and the simulated stone's group has more than one.
savedGroup(originalGrid, row, col, player, selfLiberties) ==
    \E d \in 1 .. Len(DIRECTIONS) :
        LET nr == row + DIRECTIONS[d][1]
            nc == col + DIRECTIONS[d][2]
        IN /\ isValidPoint(nr, nc)
           /\ originalGrid[nr][nc] # NoStone
           /\ originalGrid[nr][nc].color = player
           /\ countLiberties(originalGrid, getGroup(originalGrid, nr, nc)) = 1
           /\ selfLiberties > 1

\* saveScore as it would be with the bonus added inside the loop: once for
\* every neighbour whose group had one liberty.
saveScore_perNeighbour(originalGrid, row, col, player, selfLiberties) ==
    SCORES.SAVE *
        Cardinality({ d \in 1 .. Len(DIRECTIONS) :
            LET nr == row + DIRECTIONS[d][1]
                nc == col + DIRECTIONS[d][2]
            IN /\ isValidPoint(nr, nc)
               /\ originalGrid[nr][nc] # NoStone
               /\ originalGrid[nr][nc].color = player
               /\ countLiberties(originalGrid,
                                 getGroup(originalGrid, nr, nc)) = 1
               /\ selfLiberties > 1 })

saveScore(originalGrid, row, col, player, selfLiberties) ==
    IF savedGroup(originalGrid, row, col, player, selfLiberties)
    THEN SCORES.SAVE ELSE 0

\* petrified.filter(p => grid[p.row][p.col]?.color === player).length, on
\* the list checkPetrification returns.
myPetrifiedCount(g, player) ==
    LET petrified == checkPetrification(g)
    IN Cardinality({ i \in 1 .. Len(petrified) :
                       g[petrified[i][1]][petrified[i][2]].color = player })

\* originalGrid.flat().filter(s => s?.color === player && s.isPetrified).length
oldPetrifiedCount(originalGrid, player) ==
    Cardinality({ p \in Idx \X Idx :
                    /\ originalGrid[p[1]][p[2]].color = player
                    /\ originalGrid[p[1]][p[2]].isPetrified })

petrifyScore(originalGrid, g, player) ==
    IF myPetrifiedCount(g, player) > oldPetrifiedCount(originalGrid, player)
    THEN SCORES.PETRIFY ELSE 0

\* emptyNeighbors, counted on the old grid.
emptyNeighbors(originalGrid, row, col) ==
    Cardinality({ d \in 1 .. Len(DIRECTIONS) :
                    /\ isValidPoint(row + DIRECTIONS[d][1], col + DIRECTIONS[d][2])
                    /\ originalGrid[row + DIRECTIONS[d][1]][col + DIRECTIONS[d][2]]
                          = NoStone })

\* expansionScore as it would be with a weight that rivals a kill.
expansionScore_heavy(originalGrid, row, col) ==
    emptyNeighbors(originalGrid, row, col) * SCORES.KILL

expansionScore(originalGrid, row, col) ==
    emptyNeighbors(originalGrid, row, col) * SCORES.EXPANSION

\* evaluateMove, with the value `score` has after the kill block and the
\* amounts the save and petrify blocks add kept beside the value returned:
\* [kill, save, petrify, score].
evaluateMove(originalGrid, row, col, player, opponent) ==
    LET g             == simulate(originalGrid, row, col, player)
        captures      == countCaptures(g, row, col, opponent, 1,
                             [captures |-> 0, opponentGroupsChecked |-> {}])
        selfLiberties == countLiberties(g, getGroup(g, row, col))
    IN [kill    |-> killScore(captures),
        save    |-> saveScore(originalGrid, row, col, player, selfLiberties),
        petrify |-> petrifyScore(originalGrid, g, player),
        score   |-> killScore(captures)
                  + dangerScore(selfLiberties, captures)
                  + saveScore(originalGrid, row, col, player, selfLiberties)
                  + petrifyScore(originalGrid, g, player)
                  + expansionScore(originalGrid, row, col)]

\* bestScore starts at -Infinity, which every score exceeds.
NegInfinity == [finite |-> FALSE, value |-> 0]

\* keepBest as it would be with `score >= bestScore` for the first test: a
\* tie replaces the list instead of joining it.
keepBest_lastOnly(acc, r, c, score) ==
    IF ~acc.bestScore.finite \/ score >= acc.bestScore.value
    THEN [acc EXCEPT !.bestScore = [finite |-> TRUE, value |-> score],
                     !.bestMoves = << <<r, c>> >>]
    ELSE acc

\* The if / else-if of getBestMove's loop body.
keepBest(acc, r, c, score) ==
    IF ~acc.bestScore.finite \/ score > acc.bestScore.value
    THEN [acc EXCEPT !.bestScore = [finite |-> TRUE, value |-> score],
                     !.bestMoves = << <<r, c>> >>]
    ELSE IF acc.bestScore.finite /\ score = acc.bestScore.value
    THEN [acc EXCEPT !.bestMoves = Append(@, <<r, c>>)]
    ELSE acc

\* One iteration of getBestMove's loop as it would be with the test of
\* line 33 inverted: the cells that hold a stone are the candidates.
bestStep_occupiedOnly(g, player, opponent, acc) ==
    IF acc.n >= BOARD_SIZE * BOARD_SIZE THEN acc
    ELSE LET r == acc.n \div BOARD_SIZE
             c == acc.n % BOARD_SIZE
         IN IF g[r][c] = NoStone
            THEN [acc EXCEPT !.n = @ + 1]
            ELSE [keepBest(acc, r, c,
                           evaluateMove(g, r, c, player, opponent).score)
                     EXCEPT !.n = acc.n + 1]

\* One iteration of getBestMove's double loop, at cell number
\* n = r * BOARD_SIZE + c.  acc = [n, bestScore, bestMoves].
bestStep(g, player, opponent, acc) ==
    IF acc.n >= BOARD_SIZE * BOARD_SIZE THEN acc
    ELSE LET r == acc.n \div BOARD_SIZE
             c == acc.n % BOARD_SIZE
         IN IF g[r][c] # NoStone
            THEN [acc EXCEPT !.n = @ + 1]
            ELSE [keepBest(acc, r, c,
                           evaluateMove(g, r, c, player, opponent).score)
                     EXCEPT !.n = acc.n + 1]

\* The iterations number lo to hi of the double loop: the first half of
\* them, then the second.
RECURSIVE bestLoop(_, _, _, _, _, _)
bestLoop(g, player, opponent, acc, lo, hi) ==
    IF lo = hi THEN bestStep(g, player, opponent, acc)
    ELSE LET half == bestLoop(g, player, opponent, acc, lo, (lo + hi) \div 2)
         IN IF half.n >= BOARD_SIZE * BOARD_SIZE THEN half
            ELSE bestLoop(g, player, opponent, half, (lo + hi) \div 2 + 1, hi)

\* bestMoves as the loop leaves it.
bestMoves(g, player) ==
    bestLoop(g, player, IF player = "black" THEN "white" ELSE "black",
             [n |-> 0, bestScore |-> NegInfinity, bestMoves |-> <<>>],
             1, BOARD_SIZE * BOARD_SIZE).bestMoves

\* getBestMove's return, randomIdx being Math.floor(Math.random() * length);
\* null is NoPoint.
getBestMove(g, player, randomIdx) ==
    LET moves == bestMoves(g, player)
    IN IF Len(moves) = 0 THEN NoPoint ELSE moves[randomIdx + 1]

\* ------------------------------------------------------------------ the model

VARIABLES
    grid, turn, turnCount, prisoners, gameStatus, lastMove,  \* the store
    call,    \* the last call made on the store: [op, row, col]
    pre,     \* the store as that call found it
    calls,   \* the number of calls made since the opening
    actor,   \* who made the last call: "user" (a click) or "timer" (the AI)
    timer,   \* the timer of App's AI effect, with the grid its callback holds
    probe    \* the last application of an analyzer or evaluator function

vars == <<grid, turn, turnCount, prisoners, gameStatus, lastMove,
          call, pre, calls, actor, timer, probe>>

Store ==
    [grid       |-> grid,
     turn       |-> turn,
     turnCount  |-> turnCount,
     prisoners  |-> prisoners,
     gameStatus |-> gameStatus,
     lastMove   |-> lastMove]

\* Calls explored after each opening.
MaxCalls == 2

\* Clicks land on rows and columns 0 .. MaxCoord (the top-left corner).
MaxCoord == 1

OnBoardClicks == (0 .. MaxCoord) \X (0 .. MaxCoord)

OffBoardClicks == { <<-1, 0>>, <<0, BOARD_SIZE>> }

Clicks == OnBoardClicks \cup OffBoardClicks

P(row, col) == <<"placeStone", row, col>>

Pass == <<"passTurn", 0, 0>>

apply(st, move) ==
    IF move[1] = "placeStone" THEN placeStone(st, move[2], move[3])
    ELSE passTurn(st)

\* The store after the moves number lo to hi: the first half of them, then
\* the second.  acc = [st, i], i the next move's number.
RECURSIVE replay(_, _, _, _)
replay(acc, moves, lo, hi) ==
    IF acc.i > Len(moves) THEN acc
    ELSE IF lo >= hi
    THEN [st |-> apply(acc.st, moves[acc.i]), i |-> acc.i + 1]
    ELSE LET half == replay(acc, moves, lo, (lo + hi) \div 2)
         IN IF half.i > Len(moves) THEN half
            ELSE replay(half, moves, (lo + hi) \div 2 + 1, hi)

\* The store after the game `moves`, played from the new store.
played(moves) ==
    replay([st |-> InitialStore, i |-> 1], moves, 1, Len(moves)).st

\* Fourteen Black placements far from the corner, White passing after each:
\* with one earlier Black stone they leave that stone at health 1.
Aging ==
    << P(4, 0), Pass, P(4, 2), Pass, P(4, 4), Pass, P(4, 6), Pass,
       P(4, 8), Pass, P(6, 0), Pass, P(6, 2), Pass, P(6, 4), Pass,
       P(6, 6), Pass, P(6, 8), Pass, P(8, 0), Pass, P(8, 2), Pass,
       P(8, 4), Pass, P(8, 6), Pass >>

\* The games the exploration starts from, each played from the new store.
Openings ==
    << \* a new game
       << >>,
       \* Black's first stone, at the centre
       << P(4, 4) >>,
       \* an old Black stone at (2,2), a White stone at (0,2), corner free
       << P(2, 2), P(0, 2) >> \o Aging,
       \* an old Black stone at (0,1) is one of the two points that shut in
       \* White's (0,0); the other, (1,0), is free
       << P(0, 1), P(0, 0) >> \o Aging,
       \* an old Black stone at (1,1) beside White's eye at (0,0)
       << P(1, 1), P(0, 1), P(4, 0), P(1, 0) >> \o SubSeq(Aging, 3, Len(Aging)),
       \* White's (0,1), (1,0) are two groups with one liberty each, at (0,0)
       << P(0, 2), P(0, 1), P(1, 1), P(1, 0), P(2, 0), Pass >>,
       \* White's (0,1), (1,1), (1,0) are one group with one liberty, at (0,0)
       << P(0, 2), P(0, 1), P(1, 2), P(1, 1), P(2, 1), P(1, 0), P(2, 0), Pass >>
    >>

callOf(move) == [op |-> move[1], row |-> move[2], col |-> move[3]]

\* No timer has been set.
NoTimer == [state |-> "none", grid |-> INITIAL_BOARD]

\* No function has been applied.
NoProbe ==
    [fn |-> "none", row |-> 0, col |-> 0, player |-> "none",
     points |-> <<>>, value |-> 0, kill |-> 0, save |-> 0, petrify |-> 0,
     scores |-> <<>>]

\* The store after the game `moves`, its last call recorded as the last call.
Opened(moves) ==
    LET n      == Len(moves)
        before == played(SubSeq(moves, 1, n - 1))
        st     == IF n = 0 THEN InitialStore ELSE apply(before, moves[n])
    IN /\ grid = st.grid
       /\ turn = st.turn
       /\ turnCount = st.turnCount
       /\ prisoners = st.prisoners
       /\ gameStatus = st.gameStatus
       /\ lastMove = st.lastMove
       /\ call = IF n = 0 THEN [op |-> "create", row |-> 0, col |-> 0]
                 ELSE callOf(moves[n])
       /\ pre = IF n = 0 THEN InitialStore ELSE before
       /\ calls = 0
       /\ actor = "user"

\* The store after an opening.  The store is driven by clicks alone: no
\* timer is set and no function is probed.
Init ==
    \E i \in 1 .. Len(Openings) :
        /\ Opened(Openings[i])
        /\ timer = NoTimer
        /\ probe = NoProbe

\* The store takes the value st; the call and the store it found are recorded.
Commit(st, c) ==
    /\ grid' = st.grid
    /\ turn' = st.turn
    /\ turnCount' = st.turnCount
    /\ prisoners' = st.prisoners
    /\ gameStatus' = st.gameStatus
    /\ lastMove' = st.lastMove
    /\ call' = c
    /\ pre' = Store
    /\ calls' = calls + 1

PlaceStone(row, col) ==
    /\ calls < MaxCalls
    /\ Commit(placeStone(Store, row, col),
              [op |-> "placeStone", row |-> row, col |-> col])
    /\ UNCHANGED <<actor, timer, probe>>

PassTurn ==
    /\ calls < MaxCalls
    /\ Commit(passTurn(Store), [op |-> "passTurn", row |-> 0, col |-> 0])
    /\ UNCHANGED <<actor, timer, probe>>

ResetGame ==
    /\ calls < MaxCalls
    /\ Commit(resetGame(Store), [op |-> "resetGame", row |-> 0, col |-> 0])
    /\ UNCHANGED <<actor, timer, probe>>

Next ==
    \/ \E p \in Clicks : PlaceStone(p[1], p[2])
    \/ PassTurn
    \/ ResetGame

Spec == Init /\ [][Next]_vars

\* ------------------------------------------- the analyzers as pure functions
\* getGroup, countLiberties and checkPetrification applied to the boards of
\* a list of games, each played from the new store by placeStone and passTurn.
\* One function is applied to a board, once.

\* Black plays the points of `points` in turn, White passing after each.
RECURSIVE blackOnly(_, _)
blackOnly(points, i) ==
    IF i > Len(points) THEN <<>>
    ELSE << P(points[i][1], points[i][2]), Pass >> \o blackOnly(points, i + 1)

\* Black's wall (4,0) (4,1) (4,2) (3,3) .. (3,8): the 30 points above it
\* are rows 0 to 2 and (3,0) (3,1) (3,2).
Wall30 ==
    << <<4, 0>>, <<4, 1>>, <<4, 2>>, <<3, 3>>, <<3, 4>>, <<3, 5>>,
       <<3, 6>>, <<3, 7>>, <<3, 8>> >>

\* Black's wall (4,0) .. (4,3) (3,4) .. (3,8): 31 points above it.
Wall31 ==
    << <<4, 0>>, <<4, 1>>, <<4, 2>>, <<4, 3>>, <<3, 4>>, <<3, 5>>,
       <<3, 6>>, <<3, 7>>, <<3, 8>> >>

\* Black's (4,3) (5,4) .. (5,8), which with (4,0) (4,1) (4,2) shut in the 31
\* points below: rows 6 to 8 and (5,0) .. (5,3).
LowWall == << <<4, 3>>, <<5, 4>>, <<5, 5>>, <<5, 6>>, <<5, 7>>, <<5, 8>> >>

Positions ==
    Openings \o
    << \* (0,0) empty between Black's (0,1) and (1,0)
       blackOnly(<< <<0, 1>>, <<1, 0>> >>, 1),
       \* (0,0) and (0,2) empty, Black's (0,1) between them
       blackOnly(<< <<0, 1>>, <<1, 0>>, <<1, 2>>, <<0, 3>> >>, 1),
       \* (0,0) empty between Black's (0,1) and White's (1,0)
       << P(0, 1), P(1, 0) >>,
       \* (0,0) empty between Black's (0,1) and (1,0); (0,8) empty between
       \* Black's (0,7) and White's (1,8)
       << P(0, 1), P(1, 8), P(1, 0), Pass, P(0, 7), Pass >>,
       \* a region of 30 points behind a wall of one colour
       blackOnly(Wall30, 1),
       \* a region of 31 points behind a wall of one colour
       blackOnly(Wall31, 1),
       \* the region of 30 points, the wall's last stone being White's
       blackOnly(SubSeq(Wall30, 1, 8), 1) \o << P(8, 0), P(3, 8) >>,
       \* the region of 30 points with a White stone inside it
       << P(4, 0), P(1, 1) >> \o blackOnly(SubSeq(Wall30, 2, 9), 1),
       \* 31 points below, 30 points above, and between them (4,4) .. (4,7)
       \* with White's (4,8)
       << P(4, 3), P(4, 8) >> \o blackOnly(SubSeq(LowWall, 2, 6), 1)
           \o blackOnly(Wall30, 1),
       \* two walls, rows 3 and 7: regions of 27, 27 and 9 points
       blackOnly([c \in 1 .. 9 |-> <<3, c - 1>>], 1)
           \o blackOnly([c \in 1 .. 9 |-> <<7, c - 1>>], 1)
    >>

\* A board to analyze: the store after one of the games of Positions.
InitAnalyzer ==
    \E i \in 1 .. Len(Positions) :
        /\ Opened(Positions[i])
        /\ timer = NoTimer
        /\ probe = NoProbe

\* The function applied is recorded; the store stays as it was.
Probed(p) ==
    /\ probe' = p
    /\ UNCHANGED <<grid, turn, turnCount, prisoners, gameStatus, lastMove,
                   call, pre, calls, actor, timer>>

\* getGroup(grid, row, col); points is the list returned.
GetGroup(row, col) ==
    /\ probe = NoProbe
    /\ Probed([NoProbe EXCEPT !.fn = "getGroup", !.row = row, !.col = col,
                              !.points = getGroup(grid, row, col)])

\* countLiberties(grid, group) for the group of the stone at (row, col);
\* points is the group, value the number returned.
CountLiberties(row, col) ==
    /\ probe = NoProbe
    /\ grid[row][col] # NoStone
    /\ LET group == getGroup(grid, row, col)
       IN Probed([NoProbe EXCEPT !.fn = "countLiberties",
                                 !.row = row, !.col = col,
                                 !.points = group,
                                 !.value = countLiberties(grid, group)])

\* checkPetrification(grid); points is the list returned.
CheckPetrification ==
    /\ probe = NoProbe
    /\ Probed([NoProbe EXCEPT !.fn = "checkPetrification",
                              !.points = checkPetrification(grid)])

NextAnalyzer ==
    \/ \E row, col \in Idx : GetGroup(row, col)
    \/ \E row, col \in Idx : CountLiberties(row, col)
    \/ CheckPetrification

AnalyzerSpec == InitAnalyzer /\ [][NextAnalyzer]_vars

\* ------------------------------------------- the evaluator as a pure function
\* evaluateMove and getBestMove applied to the boards of a list of games.

EvalPositions ==
    << \* Black's first stone at the centre
       << P(4, 4) >>,
       \* White's (0,1), (1,0): two groups with one liberty each, at (0,0)
       Openings[6],
       \* White's (0,1), (1,1), (1,0): one group with its one liberty at
       \* (0,0); White's (0,8) with its one liberty at (1,8)
       << P(0, 2), P(0, 1), P(1, 2), P(1, 1), P(2, 1), P(1, 0), P(2, 0),
          P(0, 8), P(0, 7), Pass >>,
       \* Black's (0,1) beside the empty corner; Black's (8,8) with White's
       \* (8,7) beside it
       << P(0, 1), P(8, 7), P(8, 8), Pass >>,
       \* (0,0) and (0,2) empty, Black's flagged (0,1) between them
       blackOnly(<< <<0, 1>>, <<1, 0>>, <<1, 2>>, <<0, 3>> >>, 1),
       \* White's (3,4) and (5,4): two groups with one liberty each, at (4,4)
       << P(2, 4), P(3, 4), P(3, 3), P(5, 4), P(3, 5), Pass, P(6, 4), Pass,
          P(5, 3), Pass, P(5, 5), Pass >>
    >>

InitEvaluator ==
    \E i \in 1 .. Len(EvalPositions) :
        /\ Opened(EvalPositions[i])
        /\ timer = NoTimer
        /\ probe = NoProbe

\* evaluateMove(grid, row, col, player, opponent) at an empty cell, as
\* getBestMove calls it; kill is `score` after the kill block, save and
\* petrify the amounts those blocks add, value the score returned.
EvaluateMove(row, col, player) ==
    /\ probe = NoProbe
    /\ grid[row][col] = NoStone
    /\ \E e \in { evaluateMove(grid, row, col, player,
                                 IF player = "black" THEN "white" ELSE "black") } :
          Probed([NoProbe EXCEPT !.fn = "evaluateMove",
                                 !.row = row, !.col = col, !.player = player,
                                 !.kill = e.kill, !.save = e.save,
                                 !.petrify = e.petrify, !.value = e.score])

\* getBestMove({grid, ...}, player): points is bestMoves, (row, col) the
\* point returned for one value of randomIdx, scores the score evaluateMove
\* gives each empty cell.
GetBestMove(player) ==
    /\ probe = NoProbe
    /\ \E moves \in { bestMoves(grid, player) } :
       \E table \in { [q \in { e \in Idx \X Idx : grid[e[1]][e[2]] = NoStone } |->
                         evaluateMove(grid, q[1], q[2], player,
                             IF player = "black" THEN "white" ELSE "black").score] } :
       \E randomIdx \in 0 .. (IF Len(moves) = 0 THEN 0 ELSE Len(moves) - 1) :
       \E move \in { IF Len(moves) = 0 THEN NoPoint ELSE moves[randomIdx + 1] } :
           Probed([NoProbe EXCEPT !.fn = "getBestMove",
                                  !.row = move[1], !.col = move[2],
                                  !.player = player,
                                  !.points = moves,
                                  !.scores = table])

NextEvaluator ==
    \/ \E row, col \in Idx : \E player \in Players :
          EvaluateMove(row, col, player)
    \/ \E player \in Players : GetBestMove(player)

EvaluatorSpec == InitEvaluator /\ [][NextEvaluator]_vars

\* -------------------------------------------------- the AI effect (App.tsx)
\* App renders from the store and, in an effect that depends on every field
\* of it, starts a 700 ms timer whenever White is to move; the effect's
\* cleanup clears the timer.  The user clicks the board and the two buttons
\* at any time, also while the timer is pending.

\* clearTimeout as it would be if the effect returned no cleanup.
clearTimeout_missing(t) == t

\* `return () => clearTimeout(timer)`: a pending timer is cancelled, one
\* that has fired or was cancelled is left as it is.
clearTimeout(t) ==
    IF t.state = "pending" THEN [t EXCEPT !.state = "cancelled"] ELSE t

\* The effect, run for the store st after the cleanup of its previous run:
\* the callback of the new timer holds the grid of this render.
useEffect(st, t) ==
    IF st.turn = "white" /\ st.gameStatus = "playing"
    THEN [state |-> "pending", grid |-> st.grid]
    ELSE clearTimeout(t)

\* A render follows a change of the store; a call that returns without
\* set() leaves the store, and so the timer, as they were.
rerender(old, new, t) ==
    IF new = old THEN t ELSE useEffect(new, t)

\* The points the user clicks while the AI plays.
AppClicks == { <<0, 0>>, <<1, 0>> }

\* Black's (0,1) and (1,0) each with one liberty, at (0,0), shut in by
\* White's (1,1), (0,2) and (2,0); White has placed fourteen stones since
\* (1,1), which is at health 1, and is to move.
Crumbling ==
    << P(0, 1), P(1, 1), P(1, 0) >> \o SubSeq(Aging, 1, 24)
        \o << P(0, 2), Pass, P(2, 0), Pass >>

\* The games the App is watched from: a new game, Black's (0,0) with its one
\* liberty at (1,0), Black to move and White to move, and Crumbling.
AppOpenings ==
    << << >>,
       << P(0, 0), P(0, 1) >>,
       << P(0, 0), P(0, 1), Pass >>,
       Crumbling >>

\* App mounts on the store as a game left it; the effect runs once.
InitApp ==
    \E i \in 1 .. Len(AppOpenings) :
        /\ Opened(AppOpenings[i])
        /\ timer = useEffect(played(AppOpenings[i]), NoTimer)
        /\ probe = NoProbe

\* A call on the store made by `who`, and the render that follows it.
Acted(st, c, who, t) ==
    /\ Commit(st, c)
    /\ actor' = who
    /\ timer' = rerender(Store, st, t)
    /\ UNCHANGED probe

\* Board: onClick={() => placeStone(r, c)}
Click(row, col) ==
    /\ calls < MaxCalls
    /\ Acted(placeStone(Store, row, col),
             [op |-> "placeStone", row |-> row, col |-> col], "user", timer)

\* GameInfo: onClick={passTurn}
PassButton ==
    /\ calls < MaxCalls
    /\ Acted(passTurn(Store), [op |-> "passTurn", row |-> 0, col |-> 0],
             "user", timer)

\* GameInfo: onClick={resetGame}
NewGameButton ==
    /\ calls < MaxCalls
    /\ Acted(resetGame(Store), [op |-> "resetGame", row |-> 0, col |-> 0],
             "user", timer)

\* The timer's callback: getBestMove on the grid the callback holds, then
\* placeStone at the point returned, or passTurn when there is none.
TimerFires ==
    /\ calls < MaxCalls
    /\ timer.state = "pending"
    /\ \E moves \in { bestMoves(timer.grid, "white") } :
       \E randomIdx \in 0 .. (IF Len(moves) = 0 THEN 0 ELSE Len(moves) - 1) :
       \E move \in { IF Len(moves) = 0 THEN NoPoint ELSE moves[randomIdx + 1] } :
           IF move # NoPoint
           THEN Acted(placeStone(Store, move[1], move[2]),
                      [op |-> "placeStone", row |-> move[1], col |-> move[2]],
                      "timer", [timer EXCEPT !.state = "fired"])
           ELSE Acted(passTurn(Store),
                      [op |-> "passTurn", row |-> 0, col |-> 0],
                      "timer", [timer EXCEPT !.state = "fired"])

NextApp ==
    \/ \E p \in AppClicks : Click(p[1], p[2])
    \/ PassButton
    \/ NewGameButton
    \/ TimerFires

AppSpec == InitApp /\ [][NextApp]_vars

\* ------------------------------------------------- the vocabulary of the claims
\* The rules as the specification words them, on sets of points; none of
\* these definitions uses an operator of the engine above.

Points == Idx \X Idx

At(g, p) == g[p[1]][p[2]]

OnBoard(row, col) == row \in Idx /\ col \in Idx

Neighbours(p) ==
    { q \in { <<p[1] - 1, p[2]>>, <<p[1] + 1, p[2]>>,
              <<p[1], p[2] - 1>>, <<p[1], p[2] + 1>> } : OnBoard(q[1], q[2]) }

Opponent(player) == CHOOSE q \in Players : q # player

StonesOf(g, player) == { p \in Points : At(g, p).color = player }

PetrifiedPoints(g) == { p \in Points : At(g, p).isPetrified }

\* The maximal connected set of stones of one colour that holds S.
RECURSIVE Grow(_, _, _)
Grow(g, color, S) ==
    LET T == S \cup { q \in UNION { Neighbours(p) : p \in S } :
                        At(g, q).color = color }
    IN IF T = S THEN S ELSE Grow(g, color, T)

GroupOf(g, p) ==
    IF At(g, p) = NoStone THEN {} ELSE Grow(g, At(g, p).color, {p})

LibertiesOf(g, S) ==
    { q \in UNION { Neighbours(p) : p \in S } : At(g, q) = NoStone }

\* The points a list holds.
Range(s) == { s[i] : i \in DOMAIN s }

\* The maximal connected sets of empty points among the empty points E: the
\* one that holds some point of E, and those of the rest.
RECURSIVE RegionsIn(_, _)
RegionsIn(g, E) ==
    IF E = {} THEN {}
    ELSE LET R == Grow(g, "none", {CHOOSE p \in E : TRUE})
         IN {R} \cup RegionsIn(g, E \ R)

\* The maximal connected sets of empty points.
Regions(g) == RegionsIn(g, { q \in Points : At(g, q) = NoStone })

\* The stones next to a point of the region R.
BoundaryOf(g, R) ==
    { q \in UNION { Neighbours(p) : p \in R } : At(g, q) # NoStone }

\* The boundary stones of R are all of one colour (and there is one).
OneColour(g, R) ==
    \E c \in Players :
        /\ BoundaryOf(g, R) # {}
        /\ \A q \in BoundaryOf(g, R) : At(g, q).color = c

\* R is territory: at most 30 points, bounded by one colour.
Territory(g, R) == Cardinality(R) <= 30 /\ OneColour(g, R)

\* The empty points of the board.
EmptyPoints(g) == { p \in Points : At(g, p) = NoStone }

\* The board the evaluator judges a candidate on: the board as it is, with
\* a stone of `player` at p.
SimBoard(g, player, p) ==
    [r \in Idx |-> [c \in Idx |->
        IF <<r, c>> = p
        THEN [color |-> player, health |-> 15, isPetrified |-> FALSE]
        ELSE g[r][c]]]

\* The opponent stones the candidate p captures in the simulation: the
\* groups next to p that have no liberty on the simulated board.
SimCaptured(g, player, p) ==
    LET b == SimBoard(g, player, p)
    IN UNION { GroupOf(b, q) :
                 q \in { n \in Neighbours(p) :
                           /\ At(b, n).color = Opponent(player)
                           /\ LibertiesOf(b, GroupOf(b, n)) = {} } }

\* The board a placement by `mover` at (row, col) is judged on: the mover's
\* unpetrified stones one health down, those at 0 gone, the new stone added.
JudgedBoard(g, mover, row, col) ==
    [r \in Idx |-> [c \in Idx |->
        IF <<r, c>> = <<row, col>>
        THEN [color |-> mover, health |-> 15, isPetrified |-> FALSE]
        ELSE IF g[r][c].color = mover /\ ~g[r][c].isPetrified
        THEN IF g[r][c].health <= 1 THEN NoStone
             ELSE [g[r][c] EXCEPT !.health = @ - 1]
        ELSE g[r][c]]]

\* The opponent stones a placement captures: the groups next to the new
\* stone that have no liberty on the judged board.
Dead(g, mover, row, col) ==
    LET b == JudgedBoard(g, mover, row, col)
    IN UNION { GroupOf(b, q) :
                 q \in { n \in Neighbours(<<row, col>>) :
                           /\ At(b, n).color = Opponent(mover)
                           /\ LibertiesOf(b, GroupOf(b, n)) = {} } }

\* The last call was placeStone on a playing store, at an empty on-board cell.
LegalTarget ==
    /\ call.op = "placeStone"
    /\ pre.gameStatus = "playing"
    /\ OnBoard(call.row, call.col)
    /\ At(pre.grid, <<call.row, call.col>>) = NoStone

\* ... and it captured nothing and left the new stone's group no liberty.
Suicidal ==
    /\ LegalTarget
    /\ Dead(pre.grid, pre.turn, call.row, call.col) = {}
    /\ LET b == JudgedBoard(pre.grid, pre.turn, call.row, call.col)
       IN LibertiesOf(b, GroupOf(b, <<call.row, call.col>>)) = {}

\* The last call was a placeStone that the engine had to accept.
Accepted == LegalTarget /\ ~Suicidal

\* ------------------------------------------------------------------ the claims

\* C1: place_stone is a no-op (board, turn, turnCount, prisoners, status and
\* lastMove exactly as before) when status is not Playing, the point is off
\* the board, or the target cell is occupied.
C1_RejectedIsNoOp ==
    (/\ call.op = "placeStone"
     /\ \/ pre.gameStatus # "playing"
        \/ ~OnBoard(call.row, call.col)
        \/ At(pre.grid, <<call.row, call.col>>) # NoStone)
    => Store = pre

\* A click on an occupied cell while the mover has stones that would decay.
C1_Witness ==
    /\ call.op = "placeStone"
    /\ OnBoard(call.row, call.col)
    /\ At(pre.grid, <<call.row, call.col>>) # NoStone
    /\ \E p \in StonesOf(pre.grid, pre.turn) : ~At(pre.grid, p).isPetrified

\* C2: a suicidal placement (nothing captured, the new stone's group without
\* liberty after decay and placement) leaves the whole state as before the
\* call: no health lost, no stone crumbled, turn, turnCount, prisoners and
\* lastMove untouched.
C2_SuicideRolledBack == Suicidal => Store = pre

\* A suicide attempted while a stone of the mover stood at health 1.
C2_Witness ==
    /\ Suicidal
    /\ \E p \in StonesOf(pre.grid, pre.turn) :
          ~At(pre.grid, p).isPetrified /\ At(pre.grid, p).health = 1

\* C3: an accepted place_stone removes exactly the opponent groups next to
\* the new stone that have no liberty on the post-decay, post-placement board,
\* each stone once; the mover's prisoners grow by the number of stones
\* removed and the opponent's do not change.
C3_CapturesExact ==
    Accepted =>
        LET mover == pre.turn
            dead  == Dead(pre.grid, mover, call.row, call.col)
        IN /\ { p \in StonesOf(pre.grid, Opponent(mover)) :
                  At(grid, p) = NoStone } = dead
           /\ prisoners[mover] = pre.prisoners[mover] + Cardinality(dead)
           /\ prisoners[Opponent(mover)] = pre.prisoners[Opponent(mover)]

\* A captured group that touches the new stone through two of its neighbours.
C3_Witness ==
    /\ Accepted
    /\ \E p, q \in Neighbours(<<call.row, call.col>>) :
          /\ p # q
          /\ p \in Dead(pre.grid, pre.turn, call.row, call.col)
          /\ q \in GroupOf(JudgedBoard(pre.grid, pre.turn, call.row, call.col), p)

\* C4: on an accepted place_stone every unpetrified stone the mover had
\* loses exactly 1 health and is gone if that is 0; petrified stones and
\* surviving opponent stones keep their health; crumbled stones count for
\* no prisoner (the prisoner counts move by the captured stones alone).
C4_DecayExact ==
    Accepted =>
        LET mover == pre.turn
            lost  == { p \in StonesOf(pre.grid, Opponent(mover)) :
                         At(grid, p) = NoStone }
        IN /\ \A p \in StonesOf(pre.grid, mover) :
                 IF At(pre.grid, p).isPetrified
                 THEN At(grid, p) = At(pre.grid, p)
                 ELSE IF At(pre.grid, p).health = 1
                 THEN At(grid, p) = NoStone
                 ELSE /\ At(grid, p).color = mover
                      /\ At(grid, p).health = At(pre.grid, p).health - 1
           /\ \A p \in StonesOf(pre.grid, Opponent(mover)) \ lost :
                 /\ At(grid, p).color = Opponent(mover)
                 /\ At(grid, p).health = At(pre.grid, p).health
           /\ prisoners[mover] + prisoners[Opponent(mover)]
                 = pre.prisoners[mover] + pre.prisoners[Opponent(mover)]
                   + Cardinality(lost)

\* A placement that crumbles a stone while another stone of the mover and an
\* opponent stone stay on the board.
C4_Witness ==
    /\ Accepted
    /\ \E p \in StonesOf(pre.grid, pre.turn) :
          /\ ~At(pre.grid, p).isPetrified
          /\ At(pre.grid, p).health = 1
          /\ At(grid, p) = NoStone
    /\ \E p \in StonesOf(pre.grid, pre.turn) : At(pre.grid, p).health > 1
    /\ StonesOf(grid, Opponent(pre.turn)) # {}

\* The last call was one of the two moves of a game.
MoveMade == call.op \in {"placeStone", "passTurn"}

C6_FlagNeverCleared ==
    MoveMade =>
        \A p \in PetrifiedPoints(pre.grid) :
            At(grid, p) # NoStone => At(grid, p).isPetrified

\* A player fills the eye that petrified their stones; the stones next to
\* the new stone keep the flag.
C6_Witness ==
    /\ Accepted
    /\ \E p \in PetrifiedPoints(pre.grid) \cap Neighbours(<<call.row, call.col>>) :
          /\ At(pre.grid, p).color = pre.turn
          /\ At(grid, p).isPetrified

\* C7: an accepted place_stone(row, col) leaves a stone of the mover's colour
\* with health 15 at (row, col), flips the turn, adds 1 to turnCount and sets
\* lastMove to (row, col); Black's (4,4) on the initial state gives exactly
\* one stone (Black, 15, not petrified), White to move, turnCount 1,
\* prisoners {0, 0}.
C7_PlacementResult ==
    Accepted =>
        /\ At(grid, <<call.row, call.col>>).color = pre.turn
        /\ At(grid, <<call.row, call.col>>).health = 15
        /\ turn = Opponent(pre.turn)
        /\ turnCount = pre.turnCount + 1
        /\ lastMove = <<call.row, call.col>>
        /\ (/\ pre.turnCount = 0
            /\ pre.turn = "black"
            /\ \A p \in Points : At(pre.grid, p) = NoStone
            /\ pre.prisoners = [black |-> 0, white |-> 0]
            /\ <<call.row, call.col>> = <<4, 4>>)
           => /\ \A p \in Points \ {<<4, 4>>} : At(grid, p) = NoStone
              /\ At(grid, <<4, 4>>) =
                    [color |-> "black", health |-> 15, isPetrified |-> FALSE]
              /\ turn = "white"
              /\ turnCount = 1
              /\ prisoners = [black |-> 0, white |-> 0]

\* Black has played (4,4) on the empty board.
C7_Witness ==
    /\ Accepted
    /\ call.row = 4 /\ call.col = 4
    /\ pre.turnCount = 0
    /\ \A p \in Points : At(pre.grid, p) = NoStone

\* C8: pass_turn flips the turn, adds 1 to turnCount, clears lastMove and
\* leaves the board, both prisoner counts and the status as they were.
C8_PassResult ==
    call.op = "passTurn" =>
        /\ turn = Opponent(pre.turn)
        /\ turnCount = pre.turnCount + 1
        /\ lastMove = NoPoint
        /\ grid = pre.grid
        /\ prisoners = pre.prisoners
        /\ gameStatus = pre.gameStatus

\* A pass after a placement, by a player who has unpetrified stones, on a
\* board that holds petrified ones.
C8_Witness ==
    /\ call.op = "passTurn"
    /\ pre.gameStatus = "playing"
    /\ pre.lastMove # NoPoint
    /\ PetrifiedPoints(pre.grid) # {}
    /\ \E p \in StonesOf(pre.grid, pre.turn) : ~At(pre.grid, p).isPetrified

\* C9: reset_game yields the initial state: empty board, Black to move,
\* turnCount 0, prisoners {0, 0}, status Playing, no lastMove.
C9_ResetResult ==
    call.op = "resetGame" =>
        /\ \A p \in Points : At(grid, p) = NoStone
        /\ turn = "black"
        /\ turnCount = 0
        /\ prisoners = [black |-> 0, white |-> 0]
        /\ gameStatus = "playing"
        /\ lastMove = NoPoint

\* A reset of a game in which Black holds prisoners and White is to move.
C9_Witness ==
    /\ call.op = "resetGame"
    /\ pre.prisoners["black"] > 0
    /\ pre.turn = "white"
    /\ StonesOf(pre.grid, "black") # {}

\* C10: status is Playing in every reachable state.
C10_AlwaysPlaying == gameStatus = "playing"

\* The game goes on after a capture of three stones.
C10_Witness ==
    /\ Accepted
    /\ prisoners[pre.turn] >= pre.prisoners[pre.turn] + 3
    /\ gameStatus = "playing"

\* C11: in every reachable state every stone on the board has a health
\* between 1 and 15 inclusive.
C11_HealthInRange ==
    \A p \in Points :
        At(grid, p) # NoStone =>
            /\ At(grid, p).health \in Int
            /\ At(grid, p).health >= 1
            /\ At(grid, p).health <= 15

\* A placement crumbled a stone that stood at health 1, left another of the
\* mover's stones at health 1, and put the new stone down at health 15.
C11_Witness ==
    /\ Accepted
    /\ \E p \in StonesOf(pre.grid, pre.turn) :
          /\ ~At(pre.grid, p).isPetrified
          /\ At(pre.grid, p).health = 1
          /\ At(grid, p) = NoStone
    /\ \E p \in StonesOf(grid, pre.turn) : At(grid, p).health = 1
    /\ At(grid, <<call.row, call.col>>).health = 15

\* C12: find_petrified_stones(board) returns exactly the stones next to some
\* maximal empty region of at most 30 points whose boundary stones are all
\* one colour; a region bounded by both colours, or by none, contributes
\* nothing; the edge is a wall: with (0,0) empty and Black at (0,1) and (1,0)
\* both stones are returned.
C12_PetrifiedExact ==
    probe.fn = "checkPetrification" =>
        /\ Range(probe.points) =
               UNION { BoundaryOf(grid, R) :
                         R \in { Q \in Regions(grid) : Territory(grid, Q) } }
        /\ (/\ At(grid, <<0, 0>>) = NoStone
            /\ At(grid, <<0, 1>>).color = "black"
            /\ At(grid, <<1, 0>>).color = "black")
           => {<<0, 1>>, <<1, 0>>} \subseteq Range(probe.points)

\* The analyzer ran on a board with the corner (0,0) empty between Black's
\* (0,1) and (1,0), both returned, and with a small region bounded by both
\* colours, no stone of which is returned.
C12_Witness ==
    /\ probe.fn = "checkPetrification"
    /\ At(grid, <<0, 0>>) = NoStone
    /\ At(grid, <<0, 1>>).color = "black"
    /\ At(grid, <<1, 0>>).color = "black"
    /\ {<<0, 1>>, <<1, 0>>} \subseteq Range(probe.points)
    /\ \E R \in Regions(grid) :
          /\ Cardinality(R) <= 30
          /\ BoundaryOf(grid, R) # {}
          /\ ~OneColour(grid, R)
          /\ BoundaryOf(grid, R) \cap Range(probe.points) = {}

\* C13: a region of 31 or more points has no stone petrified on its account
\* (a boundary stone of it is returned only as the boundary of another
\* region, which is territory), whatever its boundary; a region of exactly
\* 30 points bounded by one colour has all its boundary stones returned.
C13_RegionThreshold ==
    probe.fn = "checkPetrification" =>
        \A R \in Regions(grid) :
            /\ Cardinality(R) >= 31 =>
                   \A q \in BoundaryOf(grid, R) \cap Range(probe.points) :
                       \E Q \in Regions(grid) :
                           /\ Cardinality(Q) <= 30
                           /\ OneColour(grid, Q)
                           /\ q \in BoundaryOf(grid, Q)
            /\ (Cardinality(R) = 30 /\ OneColour(grid, R)) =>
                   BoundaryOf(grid, R) \subseteq Range(probe.points)

\* The analyzer ran on a board with a region of 30 points and a region of 31
\* points, each bounded by one colour; a stone of the second is not returned.
C13_Witness ==
    /\ probe.fn = "checkPetrification"
    /\ \E R \in Regions(grid) :
          /\ Cardinality(R) = 30
          /\ OneColour(grid, R)
          /\ BoundaryOf(grid, R) \subseteq Range(probe.points)
    /\ \E R \in Regions(grid) :
          /\ Cardinality(R) = 31
          /\ OneColour(grid, R)
          /\ BoundaryOf(grid, R) \ Range(probe.points) # {}

\* C19: for an occupied point p, group_of(board, p) contains p, holds only
\* stones of p's colour, is connected through orthogonal steps, is maximal,
\* and group_of(board, q) is the same set for every q in it; for an empty p
\* it is empty.
C19_GroupExact ==
    probe.fn = "getGroup" =>
        LET p == <<probe.row, probe.col>>
            S == Range(probe.points)
        IN IF At(grid, p) = NoStone THEN probe.points = <<>>
           ELSE /\ p \in S
                /\ \A q \in S : At(grid, q).color = At(grid, p).color
                \* connected: every member is reached from p inside S
                /\ S \subseteq GroupOf(grid, p)
                \* maximal: no stone of the colour next to S is left out
                /\ \A q \in S : \A n \in Neighbours(q) :
                       At(grid, n).color = At(grid, p).color => n \in S
                /\ \A q \in S :
                       Range(getGroup(grid, q[1], q[2])) = S

\* The group of a stone that has a neighbour of its own colour, a neighbour
\* of the other colour, and a stone of its own colour diagonally next to it
\* that belongs to another group.
C19_Witness ==
    /\ probe.fn = "getGroup"
    /\ LET p == <<probe.row, probe.col>>
           S == Range(probe.points)
       IN /\ Cardinality(S) >= 2
          /\ \E q \in S : \E n \in Neighbours(q) :
                At(grid, n) # NoStone /\ At(grid, n).color # At(grid, p).color
          /\ \E q \in S : \E d \in {<<-1, -1>>, <<-1, 1>>, <<1, -1>>, <<1, 1>>} :
                /\ OnBoard(q[1] + d[1], q[2] + d[2])
                /\ At(grid, <<q[1] + d[1], q[2] + d[2]>>).color = At(grid, p).color
                /\ <<q[1] + d[1], q[2] + d[2]>> \notin S

\* C20: liberties_of(board, group) is the number of distinct empty on-board
\* points next to at least one point of the group: a point next to several
\* members counts once, an occupied point never.
C20_LibertiesExact ==
    probe.fn = "countLiberties" =>
        probe.value = Cardinality(LibertiesOf(grid, Range(probe.points)))

\* The liberties of a group with a liberty next to two of its members and
\* with an occupied point next to it.
C20_Witness ==
    /\ probe.fn = "countLiberties"
    /\ LET S == Range(probe.points)
       IN /\ \E q, r \in S :
                q # r /\ Neighbours(q) \cap Neighbours(r)
                             \cap LibertiesOf(grid, S) # {}
          /\ \E q \in S : \E n \in Neighbours(q) :
                At(grid, n) # NoStone /\ n \notin S
          /\ probe.value >= 2

\* The point the probe of getBestMove returned.
Returned == <<probe.row, probe.col>>

\* C14: best_move returns none if and only if the board has no empty cell;
\* otherwise it returns an empty point whose score is the maximum over all
\* empty points, and the points the tie-break draws from are exactly the
\* empty points with that maximum.
C14_BestMoveIsMaximal ==
    probe.fn = "getBestMove" =>
        LET E == EmptyPoints(grid)
        IN /\ (Returned = NoPoint) <=> (E = {})
           /\ E # {} =>
                 /\ Returned \in E
                 /\ \A q \in E : probe.scores[q] <= probe.scores[Returned]
                 /\ Range(probe.points) =
                        { q \in E : \A r \in E : probe.scores[r] <= probe.scores[q] }
                 /\ Returned \in Range(probe.points)

\* Several empty points share the maximum, others score less, and the point
\* returned is not the first of those that share it.
C14_Witness ==
    /\ probe.fn = "getBestMove"
    /\ Len(probe.points) >= 2
    /\ Returned # probe.points[1]
    /\ \E q \in EmptyPoints(grid) : probe.scores[q] < probe.scores[Returned]

\* C15: whenever some empty point captures in the evaluator's simulation,
\* best_move returns a capturing point, and the point returned captures the
\* greatest number of stones among all empty points.
C15_MostCapturesWins ==
    probe.fn = "getBestMove" =>
        LET E       == EmptyPoints(grid)
            caps(q) == Cardinality(SimCaptured(grid, probe.player, q))
        IN (\E q \in E : caps(q) > 0) =>
               /\ Returned \in E
               /\ caps(Returned) > 0
               /\ \A q \in E : caps(q) <= caps(Returned)

\* The point returned captures three stones while another empty point, with
\* more empty neighbours, captures one.
C15_Witness ==
    /\ probe.fn = "getBestMove"
    /\ Returned # NoPoint
    /\ Cardinality(SimCaptured(grid, probe.player, Returned)) = 3
    /\ \E q \in EmptyPoints(grid) :
          /\ Cardinality(SimCaptured(grid, probe.player, q)) = 1
          /\ Cardinality(Neighbours(q) \cap EmptyPoints(grid))
                > Cardinality(Neighbours(Returned) \cap EmptyPoints(grid))

CapturesThree ==
    /\ probe.fn = "evaluateMove"
    /\ LET dead == SimCaptured(grid, probe.player, <<probe.row, probe.col>>)
       IN /\ Cardinality(dead) = 3
          /\ \E q \in dead : dead = GroupOf(grid, q)

C18_NoStaleAiMove ==
    /\ timer.state = "pending" =>
           /\ turn = "white"
           /\ gameStatus = "playing"
           /\ timer.grid = grid
    /\ actor = "timer" =>
           /\ call.op \in {"placeStone", "passTurn"}
           /\ pre.turn = "white"
           /\ (call.op = "placeStone" /\ Store # pre) =>
                  At(grid, <<call.row, call.col>>).color = "white"

\* The user placed a stone while the timer was pending; the timer is
\* cancelled and Black is to move.
C18_Witness ==
    /\ actor = "user"
    /\ call.op = "placeStone"
    /\ pre.turn = "white"
    /\ turn = "black"
    /\ timer.state = "cancelled"

\* C21: find_petrified_stones(board) returns a set: no point appears more
\* than once in its result, also when one stone borders two different
\* qualifying empty regions.
C21_ResultIsSet ==
    probe.fn = "checkPetrification" =>
        \A i, j \in 1 .. Len(probe.points) :
            i # j => probe.points[i] # probe.points[j]

\* The analyzer ran on a board where one stone is next to two different
\* regions that are territory; the list returned names it twice.
C21_Witness ==
    /\ probe.fn = "checkPetrification"
    /\ \E R, Q \in Regions(grid) :
          /\ R # Q
          /\ Territory(grid, R)
          /\ Territory(grid, Q)
          /\ \E q \in BoundaryOf(grid, R) \cap BoundaryOf(grid, Q) :
                Cardinality({ i \in 1 .. Len(probe.points) :
                                probe.points[i] = q }) = 2

\* The stones of `player` the territory analysis marks on the board g: those
\* next to a region that is territory.
MarkedOf(g, player) ==
    { q \in UNION { BoundaryOf(g, R) :
                      R \in { Q \in Regions(g) : Territory(g, Q) } } :
        At(g, q).color = player }

\* The stones of `player` flagged petrified on the board g.
FlaggedOf(g, player) == PetrifiedPoints(g) \cap StonesOf(g, player)

\* C22: the petrify term adds 300 to a candidate's score exactly when the
\* number of the player's stones the analyzer marks on the simulated board
\* exceeds the number of the player's stones flagged petrified on the
\* pre-move board, and 0 otherwise.
C22_PetrifyTerm ==
    probe.fn = "evaluateMove" =>
        LET b == SimBoard(grid, probe.player, <<probe.row, probe.col>>)
        IN probe.petrify =
               IF Cardinality(MarkedOf(b, probe.player))
                      > Cardinality(FlaggedOf(grid, probe.player))
               THEN 300 ELSE 0

\* A candidate that gets the petrify bonus although the stones of the player
\* marked on the simulated board are the stones already flagged: one of them
\* is next to two regions and is counted for each.
C22_Witness ==
    /\ probe.fn = "evaluateMove"
    /\ probe.petrify = 300
    /\ MarkedOf(SimBoard(grid, probe.player, <<probe.row, probe.col>>),
                probe.player)
           = FlaggedOf(grid, probe.player)

\* The friendly neighbours of the candidate p whose group on the pre-move
\* board has exactly one liberty.
InAtari(g, player, p) ==
    { n \in Neighbours(p) :
        /\ At(g, n).color = player
        /\ Cardinality(LibertiesOf(g, GroupOf(g, n))) = 1 }

\* C23: the save term adds 500 to a candidate's score at most once per move:
\* it is 500 if some orthogonal friendly neighbour's pre-move group had
\* exactly 1 liberty and the post-move group of the new stone has more than 1
\* liberty, and 0 otherwise, however many groups are rescued.
C23_SaveTermOnce ==
    probe.fn = "evaluateMove" =>
        LET p == <<probe.row, probe.col>>
            b == SimBoard(grid, probe.player, p)
        IN probe.save =
               IF /\ InAtari(grid, probe.player, p) # {}
                  /\ Cardinality(LibertiesOf(b, GroupOf(b, p))) > 1
               THEN 500 ELSE 0

\* A candidate that joins two different friendly groups, each with exactly
\* one liberty before the move, into a group with more than one: 500, once.
C23_Witness ==
    /\ probe.fn = "evaluateMove"
    /\ probe.save = 500
    /\ \E n, m \in InAtari(grid, probe.player, <<probe.row, probe.col>>) :
          GroupOf(grid, n) # GroupOf(grid, m)

\* C24: in every reachable state every group of stones on the board has at
\* least one liberty, whatever placements (with their decay, crumbling and
\* captures), passes and resets led to it.
C24_EveryGroupBreathes ==
    \A p \in Points :
        At(grid, p) # NoStone => LibertiesOf(grid, GroupOf(grid, p)) # {}

\* A placement was accepted that captured, and the new stone's group has no
\* liberty but the points the captured stones left.
C24_Witness ==
    /\ Accepted
    /\ prisoners[pre.turn] > pre.prisoners[pre.turn]
    /\ At(grid, <<call.row, call.col>>).color = pre.turn
    /\ LibertiesOf(grid, GroupOf(grid, <<call.row, call.col>>))
           \subseteq Dead(pre.grid, pre.turn, call.row, call.col)

\* C25: whenever best_move(state, state.turn) returns a point, place_stone
\* at that point is accepted: the state advances.  The timer's callback
\* makes the two calls one after the other.
C25_BestMoveAccepted ==
    (actor = "timer" /\ call.op = "placeStone") => Store # pre

\* The timer's callback placed at a point where the evaluator, on the board
\* as it stood, saw a capture, and the engine, after decay, saw none and no
\* liberty for the new stone: the call returned with the store as it was.
C25_Witness ==
    /\ actor = "timer"
    /\ call.op = "placeStone"
    /\ SimCaptured(pre.grid, pre.turn, <<call.row, call.col>>) # {}
    /\ Suicidal
    /\ Store = pre

\* The step TimerFires takes, told by what it leaves behind: only the
\* timer's callback records "timer" as the actor of a call, and it runs
\* exactly when a timer is pending.
TimerRuns ==
    /\ calls < MaxCalls
    /\ timer.state = "pending"
    /\ actor' = "timer"
    /\ calls' = calls + 1

\* setTimeout runs the callback of a timer that stays pending: the delay
\* is 700 ms and only clearTimeout takes the timer back.  Nothing obliges
\* the user to click.
AppLiveSpec == AppSpec /\ WF_<<actor, calls>>(TimerRuns)

\* C26: White's turn always ends.  From every state with White to move in
\* a game being played, when the timer is allowed to fire, the turn becomes
\* Black (or the calls explored run out first); the game never stays with
\* White to move and no pending timer.
C26_WhiteTurnEnds ==
    (turn = "white" /\ gameStatus = "playing" /\ calls < MaxCalls)
        ~> (turn = "black" \/ calls = MaxCalls)

\* The game has stalled: the timer has fired, its call left the store as
\* it was, White is still to move and no timer is pending.
C26_Witness ==
    /\ actor = "timer"
    /\ timer.state = "fired"
    /\ turn = "white"
    /\ gameStatus = "playing"
    /\ Store = pre
    /\ calls < MaxCalls

\* C27: in every reachable state, every stone orthogonally adjacent to an
\* empty region of at most 30 points whose boundary stones are all of one
\* colour is flagged petrified: the committed board holds no unflagged
\* stone that the territory analyzer would mark.
C27_TerritoryIsFlagged ==
    \A R \in Regions(grid) :
        Territory(grid, R) => BoundaryOf(grid, R) \subseteq PetrifiedPoints(grid)

\* An accepted placement made a territory whose boundary holds a stone
\* that was not flagged on the board the call found.
C27_Witness ==
    /\ call.op = "placeStone"
    /\ Accepted
    /\ \E R \in Regions(grid) :
           /\ Territory(grid, R)
           /\ \E q \in BoundaryOf(grid, R) :
                  /\ q # <<call.row, call.col>>
                  /\ At(pre.grid, q) # NoStone
                  /\ ~At(pre.grid, q).isPetrified
                  /\ At(grid, q).isPetrified

C29_LastMoveIsOpponentStone ==
    lastMove # NoPoint =>
        /\ lastMove \in Points
        /\ At(grid, lastMove) # NoStone
        /\ At(grid, lastMove).color = Opponent(turn)

\* A placement was rejected while lastMove was set: lastMove still names
\* the stone of an earlier placement, not the point of this call.
C29_Witness ==
    /\ call.op = "placeStone"
    /\ ~Accepted
    /\ calls > 0
    /\ lastMove # NoPoint
    /\ lastMove # <<call.row, call.col>>
    /\ At(grid, lastMove).color = Opponent(turn)

\* C30: in every state reached from the initial state by placeStone,
\* passTurn and resetGame the turn is Black exactly when turnCount is even
\* and White exactly when it is odd; a rejected placement changes neither.
C30_TurnParity ==
    /\ (turn = "black") <=> (turnCount % 2 = 0)
    /\ (turn = "white") <=> (turnCount % 2 = 1)
    /\ (calls > 0 /\ call.op = "placeStone" /\ ~Accepted) =>
           (turn = pre.turn /\ turnCount = pre.turnCount)

\* A placement was rejected with White to move after a pass: the count
\* stayed odd.
C30_Witness ==
    /\ calls = MaxCalls
    /\ call.op = "placeStone"
    /\ ~Accepted
    /\ pre.lastMove = NoPoint
    /\ turn = "white"
    /\ turnCount % 2 = 1
    /\ turnCount = pre.turnCount

====
